---- MODULE Spec2Model ----
(***************************************************************************)
(* The page workspace of the PDF editor (src/services/pdfProcessor.ts):    *)
(* the React component App, its WorkspaceState, the event handlers that    *)
(* mutate it and the asynchronous upload, merge, split and analyze          *)
(* operations.                                                              *)
(*                                                                          *)
(* React keeps one current WorkspaceState.  A handler is a closure of the  *)
(* render that created it: a bare `state` or `draggedIdx` in a handler is  *)
(* the value of that render (variable view), while the argument `prev` of  *)
(* a functional updater is the current value (variable state).  Updates    *)
(* made in a discrete event (click, change, dragstart) are rendered before *)
(* the handler returns to the browser (Flush, taken to render every        *)
(* pending update); updates made in a continuous event (dragover) or after *)
(* an await are rendered by a later task (Render), and user events can be  *)
(* handled before it runs.                                                  *)
(*                                                                          *)
(* An asynchronous handler is one action up to its first await and one     *)
(* action per continuation that touches shared state; consecutive awaits   *)
(* that only touch the handler's local variables are one step.             *)
(*                                                                          *)
(* Indices are zero-based as in the source; position i of a JavaScript     *)
(* array is element i + 1 of the TLA+ sequence.                            *)
(*                                                                          *)
(* Three specifications.  Spec is App as the user drives it from the empty *)
(* workspace.  SpecAssembly starts an export from workspaces whose          *)
(* sequences also hold references the handlers never produce, the           *)
(* arguments mergeAndDownload and splitAllToIndividual accept.  SpecOps     *)
(* calls upload, removePage, rotatePage and reorder one after the other,    *)
(* with any id, on workspaces at every rotation, and records each call.     *)
(***************************************************************************)
EXTENDS Integers, Sequences, FiniteSets, TLC

\* ------------------------------------------------------------ bounds
\* user events (change, click, dragstart, dragover) handled in one run
MaxEvents == 4
\* handleFileUpload invocations among them
MaxUploads == 2
\* operations called one after the other in one run of SpecOps
MaxCalls == 4
\* pages an upload called in SpecOps may bring the sequence to
MaxPages == 3

\* ------------------------------------------------------------ inputs
\* The files a user can select: two PDFs and one file that is not a PDF.
InputFiles == {"A", "B", "X"}
\* pdfDoc.getPageCount() of each PDF
PageCountOf == [A |-> 2, B |-> 1]
\* PDFDocument.load(data) resolves for a PDF and rejects for anything else
IsPdf(name) == name \in DOMAIN PageCountOf

\* event.target.files of a change event: the selections a user makes here
Batches == {<<"A">>, <<"X">>, <<"A", "B">>, <<"B", "X">>}

\* ------------------------------------------------------------ values
\* JavaScript's undefined as an element of state.pages: the shape of a
\* PDFPageReference with values no upload creates.
Undefined == [id |-> <<>>, fileId |-> <<>>, pageIndex |-> -1, rotation |-> 0]

\* The initial WorkspaceState of useState; aiInsights null is "null".
InitialState == [files |-> <<>>, pages |-> <<>>, isProcessing |-> FALSE, aiInsights |-> "null"]

\* draggedIdx null
Null == -1

VARIABLES
  state,       \* the current WorkspaceState (every queued updater applied)
  draggedIdx,  \* the current value of the draggedIdx state
  view,        \* the rendered values the handlers close over: [state, draggedIdx]
  mounted,     \* FALSE once a render has thrown and React has unmounted App
  uploads,     \* handleFileUpload invocations, in the order they were started
  jobs,        \* handleMerge / handleSplit / handleAiAnalyze invocations, in order
  downloads,   \* the files handed to downloadBlob, in order
  events,      \* user events handled so far
  calls        \* the operations called one at a time (SpecOps), each with the
               \* workspace it was called on; empty in the other specifications
vars == <<state, draggedIdx, view, mounted, uploads, jobs, downloads, events, calls>>

\* ------------------------------------------------------------ helpers
Range(s) == {s[i] : i \in DOMAIN s}

\* Math.random().toString(36): an id no other file has.  A file's id is the
\* pair (invocation, position in its batch).
FreshFileId(u, k) == <<u, k>>

\* `${fileId}-${i}-${Math.random()}`
FreshPageId(fileId, i) == Append(fileId, i)

\* A render of App reads page.id of every element of state.pages; it throws on
\* an undefined element and React unmounts the component.
RenderThrows(s) == Undefined \in Range(s.pages)

\* setState after the handler's render has been unmounted is ignored.
SetState(new) == IF mounted THEN new ELSE state

\* The render that ends a discrete event.
Flush ==
  /\ mounted' = (mounted /\ ~RenderThrows(state'))
  /\ view' = IF mounted' THEN [state |-> state', draggedIdx |-> draggedIdx'] ELSE view

\* The scheduled render of updates made outside a discrete event.
Render ==
  /\ mounted
  /\ view # [state |-> state, draggedIdx |-> draggedIdx]
  /\ mounted' = ~RenderThrows(state)
  /\ view' = IF mounted' THEN [state |-> state, draggedIdx |-> draggedIdx] ELSE view
  /\ UNCHANGED <<state, draggedIdx, uploads, jobs, downloads, events, calls>>

\* ------------------------------------------------------------ upload
\* The PDFFile pushed for file k (1-based) of invocation u.
NewFile(u, k, name) ==
  [id |-> FreshFileId(u, k), name |-> name, pageCount |-> PageCountOf[name]]

\* The PDFPageReferences pushed by the loop over the pages of a file.
NewPagesOf(file) ==
  [j \in 1..file.pageCount |->
     [id |-> FreshPageId(file.id, j - 1), fileId |-> file.id,
      pageIndex |-> j - 1, rotation |-> 0]]

\* A final update that puts the new pages in front of the sequence.
UploadCommitPrepends(prev, newFiles, newPages) ==
  [prev EXCEPT !.files = prev.files \o newFiles,
               !.pages = newPages \o prev.pages,
               !.isProcessing = FALSE]

\* The final functional update of handleFileUpload.
UploadCommit(prev, newFiles, newPages) ==
  [prev EXCEPT !.files = prev.files \o newFiles,
               !.pages = prev.pages \o newPages,
               !.isProcessing = FALSE]

\* handleFileUpload up to its first await: the change event of the file input.
\* The input is never disabled and the handler does not read isProcessing.
handleFileUpload(batch) ==
  /\ mounted
  /\ events < MaxEvents
  /\ Len(uploads) < MaxUploads
  /\ events' = events + 1
  /\ state' = [state EXCEPT !.isProcessing = TRUE]
  /\ uploads' = Append(uploads,
       [batch |-> batch, done |-> 0, newFiles |-> <<>>, newPages |-> <<>>,
        phase |-> "running"])
  /\ UNCHANGED <<draggedIdx, jobs, downloads, calls>>
  /\ Flush

\* An iteration that adds each file and its pages to the workspace as soon as
\* the file has loaded, instead of collecting them for the final setState.
UploadFileStepCommitsEach(u, thumbsOk) ==
  /\ u \in DOMAIN uploads
  /\ uploads[u].phase = "running"
  /\ LET t == uploads[u]
         k == t.done + 1
         name == t.batch[k]
     IN IF ~IsPdf(name) \/ ~thumbsOk
        THEN /\ uploads' = [uploads EXCEPT ![u].phase = "failed"]
             /\ UNCHANGED state
        ELSE LET file == NewFile(u, k, name)
                 nf == Append(t.newFiles, file)
                 np == t.newPages \o NewPagesOf(file)
                 added == [state EXCEPT !.files = state.files \o <<file>>,
                                        !.pages = state.pages \o NewPagesOf(file),
                                        !.isProcessing = (k # Len(t.batch))]
             IN /\ uploads' = [uploads EXCEPT ![u] =
                     [t EXCEPT !.done = k, !.newFiles = nf, !.newPages = np,
                               !.phase = IF k = Len(t.batch) THEN "done" ELSE "running"]]
                /\ state' = SetState(added)
  /\ UNCHANGED <<draggedIdx, view, mounted, jobs, downloads, events, calls>>

\* One iteration of the loop over the batch: arrayBuffer, PDFDocument.load and
\* generateThumbnail of every page.  thumbsOk is whether every generateThumbnail
\* resolves.  A rejection leaves the function; after the last file the final
\* setState runs in the same continuation.
UploadFileStep(u, thumbsOk) ==
  /\ u \in DOMAIN uploads
  /\ uploads[u].phase = "running"
  /\ LET t == uploads[u]
         k == t.done + 1
         name == t.batch[k]
     IN IF ~IsPdf(name) \/ ~thumbsOk
        THEN /\ uploads' = [uploads EXCEPT ![u].phase = "failed"]
             /\ UNCHANGED state
        ELSE LET file == NewFile(u, k, name)
                 nf == Append(t.newFiles, file)
                 np == t.newPages \o NewPagesOf(file)
             IN IF k = Len(t.batch)
                THEN /\ uploads' = [uploads EXCEPT ![u] =
                          [t EXCEPT !.done = k, !.newFiles = nf, !.newPages = np,
                                    !.phase = "done"]]
                     /\ state' = SetState(UploadCommit(state, nf, np))
                ELSE /\ uploads' = [uploads EXCEPT ![u] =
                          [t EXCEPT !.done = k, !.newFiles = nf, !.newPages = np]]
                     /\ UNCHANGED state
  /\ UNCHANGED <<draggedIdx, view, mounted, jobs, downloads, events, calls>>

\* ------------------------------------------------------------ page edits
\* A filter with its test the wrong way round.
FilterOutKeepsOnly(pages, id) == SelectSeq(pages, LAMBDA p : p.id = id)

\* prev.pages.filter(p => p.id !== id)
FilterOut(pages, id) == SelectSeq(pages, LAMBDA p : p.id # id)

\* A quarter turn that is not reduced modulo 360.
RotateInNoWrap(pages, id) ==
  [i \in DOMAIN pages |->
     IF pages[i].id = id
     THEN [pages[i] EXCEPT !.rotation = pages[i].rotation + 90]
     ELSE pages[i]]

\* A quarter turn that stops at 270 instead of going round.
RotateInClamps(pages, id) ==
  [i \in DOMAIN pages |->
     IF pages[i].id = id
     THEN [pages[i] EXCEPT !.rotation = IF pages[i].rotation + 90 > 270 THEN 270
                                        ELSE pages[i].rotation + 90]
     ELSE pages[i]]

\* prev.pages.map(p => p.id === id ? {...p, rotation: (p.rotation + 90) % 360} : p)
RotateIn(pages, id) ==
  [i \in DOMAIN pages |->
     IF pages[i].id = id
     THEN [pages[i] EXCEPT !.rotation = (pages[i].rotation + 90) % 360]
     ELSE pages[i]]

\* The updaters of removePage and rotatePage read p.id of every element: on an
\* undefined element they throw inside the render, which unmounts App.
removePage(i) ==
  /\ mounted
  /\ events < MaxEvents
  /\ i \in DOMAIN view.state.pages
  /\ events' = events + 1
  /\ state' = IF RenderThrows(state) THEN state
              ELSE [state EXCEPT !.pages = FilterOut(state.pages, view.state.pages[i].id)]
  /\ UNCHANGED <<draggedIdx, uploads, jobs, downloads, calls>>
  /\ Flush

rotatePage(i) ==
  /\ mounted
  /\ events < MaxEvents
  /\ i \in DOMAIN view.state.pages
  /\ events' = events + 1
  /\ state' = IF RenderThrows(state) THEN state
              ELSE [state EXCEPT !.pages = RotateIn(state.pages, view.state.pages[i].id)]
  /\ UNCHANGED <<draggedIdx, uploads, jobs, downloads, calls>>
  /\ Flush

\* Array.prototype.splice(start, deleteCount) for 0 <= start: what is left and
\* what was removed; a start past the end removes nothing.
SpliceOut(arr, start, deleteCount) ==
  LET from == IF start > Len(arr) THEN Len(arr) ELSE start
      n == IF deleteCount > Len(arr) - from THEN Len(arr) - from ELSE deleteCount
  IN [rest |-> SubSeq(arr, 1, from) \o SubSeq(arr, from + n + 1, Len(arr)),
      removed |-> SubSeq(arr, from + 1, from + n)]

\* Array.prototype.splice(start, 0, item) for 0 <= start: a start past the end
\* inserts at the end.
SpliceIn(arr, start, item) ==
  LET at == IF start > Len(arr) THEN Len(arr) ELSE start
  IN SubSeq(arr, 1, at) \o <<item>> \o SubSeq(arr, at + 1, Len(arr))

\* A reorder that inserts the copy before it removes the original, so that an
\* element moved towards the end lands one place short.
ReorderedInsertsFirst(pages, from, to) ==
  LET movedItem == IF from < Len(pages) THEN pages[from + 1] ELSE Undefined
      grown == SpliceIn(pages, to, movedItem)
  IN SpliceOut(grown, IF to <= from THEN from + 1 ELSE from, 1).rest

\* The array handleDragOver builds: const [movedItem] = ... destructures the
\* first removed element, undefined when nothing was removed.
Reordered(pages, from, to) ==
  LET cut == SpliceOut(pages, from, 1)
      movedItem == IF Len(cut.removed) > 0 THEN cut.removed[1] ELSE Undefined
  IN SpliceIn(cut.rest, to, movedItem)

\* onDragStart of the card rendered at index idx.
handleDragStart(idx) ==
  /\ mounted
  /\ events < MaxEvents
  /\ idx + 1 \in DOMAIN view.state.pages
  /\ events' = events + 1
  /\ draggedIdx' = idx
  /\ UNCHANGED <<state, uploads, jobs, downloads, calls>>
  /\ Flush

\* onDragOver of the card rendered at index idx.  It fires for any drag over the
\* card, whether or not a card's dragstart came first; draggedIdx is never reset
\* when a drag ends.
handleDragOver(idx) ==
  /\ mounted
  /\ events < MaxEvents
  /\ idx + 1 \in DOMAIN view.state.pages
  /\ ~(view.draggedIdx = Null \/ view.draggedIdx = idx)
  /\ events' = events + 1
  /\ draggedIdx' = idx
  /\ state' = [state EXCEPT !.pages = Reordered(view.state.pages, view.draggedIdx, idx)]
  /\ UNCHANGED <<view, mounted, uploads, jobs, downloads, calls>>

\* The Clear All button is rendered only while state.pages is not empty.
clearWorkspace ==
  /\ mounted
  /\ events < MaxEvents
  /\ events' = events + 1
  /\ Len(view.state.pages) > 0
  /\ state' = InitialState
  /\ UNCHANGED <<draggedIdx, uploads, jobs, downloads, calls>>
  /\ Flush

\* ------------------------------------------------------------ assembly
\* docCache[ref.fileId]: the document loaded from the file with that id; the
\* empty sequence stands for a missing key (undefined).
DocCache(files, fileId) == SelectSeq(files, LAMBDA f : f.id = fileId)

\* mergedPdf.copyPages(srcDoc, [ref.pageIndex]) rejects when srcDoc is undefined
\* or has no page of that index; reading ref.fileId throws when ref is undefined.
CopyThrows(files, ref) ==
  \/ ref = Undefined
  \/ DocCache(files, ref.fileId) = <<>>
  \/ ref.pageIndex < 0
  \/ ref.pageIndex >= DocCache(files, ref.fileId)[1].pageCount

\* The page copyPages returns: page pageIndex of the source document, with the
\* rotation the source page has (none).
CopiedPage(files, ref) ==
  [doc |-> DocCache(files, ref.fileId)[1].name, page |-> ref.pageIndex, rotation |-> 0]

\* An iteration that leaves out setRotation, as the loop of
\* splitAllToIndividual does.
MergedPageUnrotated(files, ref) == CopiedPage(files, ref)

\* One iteration of the loop of mergeAndDownload.
MergedPage(files, ref) ==
  IF ref.rotation # 0
  THEN [CopiedPage(files, ref) EXCEPT !.rotation = ref.rotation]
  ELSE CopiedPage(files, ref)

\* A loop that leaves out a page it cannot copy and goes on to the next.
RECURSIVE MergeLoopSkips(_, _, _, _)
MergeLoopSkips(files, pageRefs, n, acc) ==
  IF n > Len(pageRefs) THEN [ok |-> TRUE, pages |-> acc]
  ELSE IF CopyThrows(files, pageRefs[n]) THEN MergeLoopSkips(files, pageRefs, n + 1, acc)
  ELSE MergeLoopSkips(files, pageRefs, n + 1, Append(acc, MergedPage(files, pageRefs[n])))

\* The loop of mergeAndDownload over pageRefs from position n on, the pages
\* added so far in acc: the document saved, or a rejection.
RECURSIVE MergeLoop(_, _, _, _)
MergeLoop(files, pageRefs, n, acc) ==
  IF n > Len(pageRefs) THEN [ok |-> TRUE, pages |-> acc]
  ELSE IF CopyThrows(files, pageRefs[n]) THEN [ok |-> FALSE, pages |-> <<>>]
  ELSE MergeLoop(files, pageRefs, n + 1, Append(acc, MergedPage(files, pageRefs[n])))

mergeAndDownload(files, pageRefs) == MergeLoop(files, pageRefs, 1, <<>>)

\* A name built from the loop index itself.
SplitFileNameZeroBased(i) == "page_" \o ToString(i) \o ".pdf"

\* `page_${i + 1}.pdf` for the zero-based loop index i
SplitFileName(i) == "page_" \o ToString(i + 1) \o ".pdf"

\* The downloads of splitAllToIndividual for the zero-based indices i..last - 1
\* of pageRefs, stopping at the first iteration that rejects; failAt is the
\* zero-based iteration at which the codec itself rejects (create or save), or
\* Len(pageRefs) when it never does.
RECURSIVE SplitLoop(_, _, _, _, _)
SplitLoop(files, pageRefs, i, failAt, acc) ==
  IF i >= Len(pageRefs) THEN [ok |-> TRUE, files |-> acc]
  ELSE IF i = failAt \/ CopyThrows(files, pageRefs[i + 1]) THEN [ok |-> FALSE, files |-> acc]
  ELSE SplitLoop(files, pageRefs, i + 1, failAt,
         Append(acc, [name |-> SplitFileName(i),
                      pages |-> <<CopiedPage(files, pageRefs[i + 1])>>]))

splitAllToIndividual(files, pageRefs, failAt) == SplitLoop(files, pageRefs, 0, failAt, <<>>)

\* The Merge button is disabled while the rendered state has no pages or is
\* processing; handleMerge returns when the rendered state has no pages.  The
\* arguments of mergeAndDownload are the rendered state.files and state.pages.
handleMerge ==
  /\ mounted
  /\ events < MaxEvents
  /\ events' = events + 1
  /\ ~(Len(view.state.pages) = 0 \/ view.state.isProcessing)
  /\ state' = [state EXCEPT !.isProcessing = TRUE]
  /\ jobs' = Append(jobs, [kind |-> "merge", files |-> view.state.files,
                           pages |-> view.state.pages, phase |-> "running"])
  /\ UNCHANGED <<draggedIdx, uploads, downloads, calls>>
  /\ Flush

handleSplit ==
  /\ mounted
  /\ events < MaxEvents
  /\ events' = events + 1
  /\ ~(Len(view.state.pages) = 0 \/ view.state.isProcessing)
  /\ state' = [state EXCEPT !.isProcessing = TRUE]
  /\ jobs' = Append(jobs, [kind |-> "split", files |-> view.state.files,
                           pages |-> view.state.pages, phase |-> "running"])
  /\ UNCHANGED <<draggedIdx, uploads, downloads, calls>>
  /\ Flush

\* A finally block that resets the workspace as clearWorkspace does.
FinallyResets(prev) == InitialState

\* The finally block of handleMerge, handleSplit and handleAiAnalyze.
Finally(prev) == [prev EXCEPT !.isProcessing = FALSE]

\* The continuation of handleMerge: mergeAndDownload resolves after one
\* download or rejects; codecOk is whether create, load and save resolve.
MergeSettles(j, codecOk) ==
  /\ j \in DOMAIN jobs
  /\ jobs[j].kind = "merge"
  /\ jobs[j].phase = "running"
  /\ LET r == mergeAndDownload(jobs[j].files, jobs[j].pages)
     IN IF r.ok /\ codecOk
        THEN /\ downloads' = Append(downloads,
                  [job |-> j, name |-> "exported_document.pdf", pages |-> r.pages])
             /\ jobs' = [jobs EXCEPT ![j].phase = "done"]
        ELSE /\ downloads' = downloads
             /\ jobs' = [jobs EXCEPT ![j].phase = "failed"]
  /\ state' = SetState(Finally(state))
  /\ UNCHANGED <<draggedIdx, view, mounted, uploads, events, calls>>

\* The continuation of handleSplit: every download made before the first
\* rejection has been delivered.
SplitSettles(j, failAt) ==
  /\ j \in DOMAIN jobs
  /\ jobs[j].kind = "split"
  /\ jobs[j].phase = "running"
  /\ failAt \in 0..Len(jobs[j].pages)
  /\ LET r == splitAllToIndividual(jobs[j].files, jobs[j].pages, failAt)
     IN /\ downloads' = downloads \o
             [n \in 1..Len(r.files) |->
                [job |-> j, name |-> r.files[n].name, pages |-> r.files[n].pages]]
        /\ jobs' = [jobs EXCEPT ![j].phase = IF r.ok THEN "done" ELSE "failed"]
  /\ state' = SetState(Finally(state))
  /\ UNCHANGED <<draggedIdx, view, mounted, uploads, events, calls>>

\* ------------------------------------------------------------ analyze
\* What the text-analysis call meets.
AnalyzeOutcomes == {"text", "noText", "clientThrows", "serviceThrows"}

\* analyzePdfContent: new GoogleGenAI(...) is outside the try block.
analyzePdfContent(outcome) ==
  CASE outcome = "clientThrows" -> [threw |-> TRUE, value |-> ""]
    [] outcome = "serviceThrows" ->
         [threw |-> FALSE, value |-> "Failed to get AI insights. Please check your connection."]
    [] outcome = "noText" -> [threw |-> FALSE, value |-> "No insights available."]
    [] OTHER -> [threw |-> FALSE, value |-> "insights"]

\* The Analyze button is disabled while the rendered state has no files or is
\* processing.
handleAiAnalyze ==
  /\ mounted
  /\ events < MaxEvents
  /\ events' = events + 1
  /\ ~(Len(view.state.files) = 0 \/ view.state.isProcessing)
  /\ state' = [state EXCEPT !.isProcessing = TRUE, !.aiInsights = "Thinking..."]
  /\ jobs' = Append(jobs, [kind |-> "analyze", files |-> view.state.files,
                           pages |-> <<>>, phase |-> "running"])
  /\ UNCHANGED <<draggedIdx, uploads, downloads, calls>>
  /\ Flush

\* The continuation of handleAiAnalyze: extractOk is whether extractText of
\* state.files[0].data resolves.
AnalyzeSettles(j, extractOk, outcome) ==
  /\ j \in DOMAIN jobs
  /\ jobs[j].kind = "analyze"
  /\ jobs[j].phase = "running"
  /\ LET r == analyzePdfContent(outcome)
         caught == ~extractOk \/ r.threw
         insights == IF caught THEN "Error generating insights." ELSE r.value
     IN /\ state' = SetState(Finally([state EXCEPT !.aiInsights = insights]))
        /\ jobs' = [jobs EXCEPT ![j].phase = IF caught THEN "failed" ELSE "done"]
  /\ UNCHANGED <<draggedIdx, view, mounted, uploads, downloads, events, calls>>

\* ------------------------------------------------------------ the operations called one at a time
\* The operations on the page sequence as functions of the workspace: each is
\* called with nothing in flight and every earlier update rendered, with any
\* argument (an id no page has, an id removed before), and is recorded in calls
\* with the workspace it was called on.
Rotations == {0, 90, 180, 270}

\* An id that Math.random() has given no page.
AbsentId == <<0>>

\* The ids a caller can hold: of the pages there are, of those there were.
KnownIds ==
  {p.id : p \in Range(state.pages)}
  \cup {calls[k].id : k \in DOMAIN calls} \cup {AbsentId}

Called(op, id, from, to) ==
  calls' = Append(calls, [op |-> op, id |-> id, from |-> from, to |-> to, before |-> state])

\* handleFileUpload of one PDF, run to its final setState.
uploadCall(name) ==
  /\ Len(calls) < MaxCalls
  /\ Len(state.pages) + PageCountOf[name] <= MaxPages
  /\ LET u == 2 + Cardinality({k \in DOMAIN calls : calls[k].op = "upload"})
         file == NewFile(u, 1, name)
     IN state' = UploadCommit([state EXCEPT !.isProcessing = TRUE], <<file>>, NewPagesOf(file))
  /\ Called("upload", AbsentId, Null, Null)
  /\ UNCHANGED <<draggedIdx, uploads, jobs, downloads, events>>
  /\ Flush

\* removePage(id)
removePageCall(id) ==
  /\ Len(calls) < MaxCalls
  /\ state' = [state EXCEPT !.pages = FilterOut(state.pages, id)]
  /\ Called("removePage", id, Null, Null)
  /\ UNCHANGED <<draggedIdx, uploads, jobs, downloads, events>>
  /\ Flush

\* rotatePage(id)
rotatePageCall(id) ==
  /\ Len(calls) < MaxCalls
  /\ state' = [state EXCEPT !.pages = RotateIn(state.pages, id)]
  /\ Called("rotatePage", id, Null, Null)
  /\ UNCHANGED <<draggedIdx, uploads, jobs, downloads, events>>
  /\ Flush

\* A reorder from index from to index to: handleDragStart(from) on the card at
\* from, then handleDragOver(to) on the card at to, which returns at once when
\* the two are the same card.
reorderCall(from, to) ==
  /\ Len(calls) < MaxCalls
  /\ from + 1 \in DOMAIN state.pages
  /\ to + 1 \in DOMAIN state.pages
  /\ draggedIdx' = to
  /\ state' = IF from = to THEN state
              ELSE [state EXCEPT !.pages = Reordered(state.pages, from, to)]
  /\ Called("reorder", AbsentId, from, to)
  /\ UNCHANGED <<uploads, jobs, downloads, events>>
  /\ Flush

\* ------------------------------------------------------------ operations in flight
UploadsInFlight == {u \in DOMAIN uploads : uploads[u].phase = "running"}
JobsInFlight == {j \in DOMAIN jobs : jobs[j].phase = "running"}
InFlight == Cardinality(UploadsInFlight) + Cardinality(JobsInFlight)

\* The pages of every settled upload that reached its final setState, in the
\* order the uploads were started.
RECURSIVE CommittedPages(_)
CommittedPages(n) ==
  IF n = 0 THEN <<>>
  ELSE CommittedPages(n - 1) \o
       (IF uploads[n].phase = "done" THEN uploads[n].newPages ELSE <<>>)

\* ------------------------------------------------------------ C1
\* C1: at most one long-running operation (upload, merge, split, analyze) is in
\* flight at any time; a second one is never started while another has not
\* terminated.
C1_AtMostOneInFlight == InFlight <= 1

\* ------------------------------------------------------------ C2
\* C2: the workspace never remains with isProcessing = true when no operation
\* is in flight: every operation resets the flag on the path that ends it.
C2_FlagClearedWhenIdle == (mounted /\ InFlight = 0) => ~state.isProcessing

\* ------------------------------------------------------------ C3
\* s and t hold the same elements, each as many times.
SameElements(s, t) ==
  /\ Len(s) = Len(t)
  /\ \A x \in Range(s) \cup Range(t) :
       Cardinality({i \in DOMAIN s : s[i] = x}) = Cardinality({i \in DOMAIN t : t[i] = x})

\* C3: no update is lost by a reorder: a drag reorder with valid indices keeps
\* every page of the current sequence, with its rotation, whatever was appended,
\* removed or rotated since the render it was computed from.
C3_ReorderLosesNoUpdate ==
  [][\A idx \in 0..Len(view.state.pages) :
       (handleDragOver(idx) /\ view.draggedIdx < Len(view.state.pages))
         => SameElements(state'.pages, state.pages)]_vars

\* ------------------------------------------------------------ C4
\* p refers to a file of files and to one of its pages.
WellFormedRef(files, p) ==
  \E i \in DOMAIN files :
    /\ files[i].id = p.fileId
    /\ 0 <= p.pageIndex
    /\ p.pageIndex < files[i].pageCount

\* C4: every PageReference of the sequence refers to a source document of the
\* registry and to a page index within that document's page count.
C4_ReferencesResolve == \A i \in DOMAIN state.pages : WellFormedRef(state.files, state.pages[i])

\* ------------------------------------------------------------ C5
\* C5: an upload the codec cannot load leaves the workspace as it was before
\* it.  Stated for a run in which that upload is the only event handled, so the
\* workspace before it is the initial one.
C5_FailedUploadLeavesWorkspace ==
  (/\ Len(uploads) = 1
   /\ uploads[1].phase = "failed"
   /\ ~IsPdf(uploads[1].batch[uploads[1].done + 1])
   /\ events = 1)
  => state = InitialState

\* ------------------------------------------------------------ C6
\* C6: absent other mutations, the page sequence is the concatenation of the
\* uploaded sources' pages in the order the uploads were made.  Every event so
\* far started an upload, so no page was edited and nothing was cleared.
C6_UploadOrderKept ==
  (/\ mounted
   /\ events = Len(uploads)
   /\ jobs = <<>>)
  => state.pages = CommittedPages(Len(uploads))

\* ------------------------------------------------------------ C7
BlockOf(pages, fileId) == SelectSeq(pages, LAMBDA p : p.fileId = fileId)

BlocksInOrder(block, files) ==
  /\ \A i, j, k \in DOMAIN block :
       (i < j /\ j < k /\ block[i].fileId = block[k].fileId)
         => block[j].fileId = block[i].fileId
  /\ \A i, j \in DOMAIN block :
       (i < j /\ block[i].fileId = block[j].fileId)
         => block[i].pageIndex < block[j].pageIndex
  /\ \A f, g \in DOMAIN files : \A i, j \in DOMAIN block :
       (f < g /\ block[i].fileId = files[f].id /\ block[j].fileId = files[g].id) => i < j
  /\ \A f \in DOMAIN files : Len(BlockOf(block, files[f].id)) = files[f].pageCount
  /\ \A i \in DOMAIN block : \E f \in DOMAIN files : block[i].fileId = files[f].id

\* C7: the append of an upload adds the pages of its sources to the end of the
\* sequence as contiguous blocks, one per source in batch order, each in
\* ascending page order, leaving the pages already there in place.
C7_AppendIsOneBlock ==
  [][\A u \in DOMAIN uploads :
       (mounted /\ uploads[u].phase = "running" /\ uploads'[u].phase = "done")
         => /\ Len(state'.pages) >= Len(state.pages)
            /\ SubSeq(state'.pages, 1, Len(state.pages)) = state.pages
            /\ BlocksInOrder(SubSeq(state'.pages, Len(state.pages) + 1, Len(state'.pages)),
                             uploads'[u].newFiles)]_vars

\* C7 witness: two uploads were in flight together (the later one committed first) and a
\* batch of two files has been appended.
C7_Witness ==
  /\ mounted
  /\ Len(uploads) = 2
  /\ uploads[1].phase = "done"
  /\ uploads[2].phase = "done"
  /\ Len(uploads[2].newFiles) = 2
  /\ state.pages = uploads[2].newPages \o uploads[1].newPages

\* ------------------------------------------------------------ C8
\* C8: a reorder whose source index is outside [0, length) of the current
\* sequence leaves the sequence unchanged (and fails with a RangeError).
C8_OutOfRangeReorderRejected ==
  [][\A idx \in 0..Len(view.state.pages) :
       (/\ handleDragOver(idx)
        /\ view.state.pages = state.pages
        /\ view.draggedIdx >= Len(state.pages))
         => state'.pages = state.pages]_vars

\* ------------------------------------------------------------ C9
\* The downloads an invocation has delivered, in the order of delivery.
DownloadsOf(j) == SelectSeq(downloads, LAMBDA d : d.job = j)

\* The name of the source document a reference points at.
SourceName(files, ref) == (CHOOSE f \in Range(files) : f.id = ref.fileId).name

C12_ExportsOnlyRead ==
  [][(\/ handleMerge
      \/ handleSplit
      \/ \E j \in DOMAIN jobs, codecOk \in BOOLEAN : MergeSettles(j, codecOk)
      \/ \E j \in DOMAIN jobs : \E failAt \in 0..Len(jobs[j].pages) : SplitSettles(j, failAt))
       => (state'.pages = state.pages /\ state'.files = state.files)]_vars

\* C12 witness: a merge has failed and a split started after it has failed part-way,
\* and the workspace still holds the sequence and the registry both were
\* started with and is not processing, so the export can be started again.
C12_Witness ==
  \E j, k \in DOMAIN jobs :
    /\ j < k
    /\ jobs[j].kind = "merge" /\ jobs[j].phase = "failed"
    /\ jobs[k].kind = "split" /\ jobs[k].phase = "failed"
    /\ Len(DownloadsOf(k)) = 1
    /\ Len(state.pages) >= 2
    /\ state.pages = jobs[j].pages /\ state.files = jobs[j].files
    /\ state.pages = jobs[k].pages /\ state.files = jobs[k].files
    /\ ~state.isProcessing
    /\ mounted

\* ------------------------------------------------------------ C13
\* C13: while an upload, merge, split or analyze has started and not ended,
\* isProcessing is true.
C13_FlagSetWhileInFlight == (mounted /\ InFlight > 0) => state.isProcessing

\* ------------------------------------------------------------ C14
\* The workspace after call k.
After(k) == IF k = Len(calls) THEN state ELSE calls[k + 1].before

\* C14: reorder(i, j) followed by reorder(j, i), for valid i and j, restores the
\* sequence there was before the two, and reorder(i, i) leaves the sequence as
\* it is.
C14_ReorderRoundTrip ==
  /\ \A k \in 1..(Len(calls) - 1) :
       (/\ calls[k].op = "reorder"
        /\ calls[k + 1].op = "reorder"
        /\ calls[k + 1].from = calls[k].to
        /\ calls[k + 1].to = calls[k].from)
       => After(k + 1).pages = calls[k].before.pages
  /\ \A k \in DOMAIN calls :
       (calls[k].op = "reorder" /\ calls[k].from = calls[k].to)
       => After(k).pages = calls[k].before.pages

\* C14 witness: the first of three pages has been moved to the end and back: the
\* sequence in between was another one and the sequence now is the first one.
C14_Witness ==
  \E k \in 1..(Len(calls) - 1) :
    /\ calls[k].op = "reorder" /\ calls[k].from = 0 /\ calls[k].to = 2
    /\ calls[k + 1].op = "reorder" /\ calls[k + 1].from = 2 /\ calls[k + 1].to = 0
    /\ Len(calls[k].before.pages) = 3
    /\ calls[k + 1].before.pages # calls[k].before.pages
    /\ After(k + 1).pages = calls[k].before.pages

\* ------------------------------------------------------------ C15
\* s without its element at position p
Without(s, p) == [i \in 1..(Len(s) - 1) |-> IF i < p THEN s[i] ELSE s[i + 1]]

\* C15: removePage(id) takes the one reference with that id out of the sequence
\* and leaves every other reference, with its rotation, in its order, and the
\* rest of the workspace as it is; called again with that id, or with an id no
\* page has, it changes nothing; it raises no error.
C15_RemoveIdempotent ==
  /\ mounted
  /\ \A k \in DOMAIN calls :
       calls[k].op = "removePage" =>
         LET before == calls[k].before
             at == {i \in DOMAIN before.pages : before.pages[i].id = calls[k].id}
         IN /\ After(k) = [before EXCEPT !.pages = After(k).pages]
            /\ IF at = {} THEN After(k).pages = before.pages
               ELSE \E p \in at : at = {p} /\ After(k).pages = Without(before.pages, p)
  /\ \A k \in 1..(Len(calls) - 1) :
       (/\ calls[k].op = "removePage"
        /\ calls[k + 1].op = "removePage"
        /\ calls[k + 1].id = calls[k].id)
       => After(k + 1) = After(k)

\* C15 witness: the second of three pages has been removed, removePage has been
\* called with its id again, and then with an id no page has had.
C15_Witness ==
  /\ Len(calls) = 3
  /\ calls[1].op = "removePage" /\ calls[2].op = "removePage" /\ calls[3].op = "removePage"
  /\ Len(calls[1].before.pages) = 3
  /\ calls[1].id = calls[1].before.pages[2].id
  /\ calls[2].id = calls[1].id
  /\ calls[3].id = AbsentId
  /\ state.pages = <<calls[1].before.pages[1], calls[1].before.pages[3]>>

\* ------------------------------------------------------------ C16
\* C16: the rotation of every page of the sequence is one of 0, 90, 180, 270:
\* an upload creates its pages with rotation 0, and rotatePage(id) adds 90
\* modulo 360 to the rotation of the page with that id and leaves every other
\* page, the order and the rest of the workspace as they are; with an id no
\* page has it changes nothing.
C16_RotationNormalised ==
  /\ \A i \in DOMAIN state.pages : state.pages[i].rotation \in {0, 90, 180, 270}
  /\ \A k \in DOMAIN calls :
       calls[k].op = "upload" =>
         /\ Len(After(k).pages) > Len(calls[k].before.pages)
         /\ \A i \in DOMAIN After(k).pages :
              IF i <= Len(calls[k].before.pages)
              THEN After(k).pages[i] = calls[k].before.pages[i]
              ELSE After(k).pages[i].rotation = 0
  /\ \A k \in DOMAIN calls :
       calls[k].op = "rotatePage" =>
         LET before == calls[k].before
         IN /\ After(k) = [before EXCEPT !.pages = After(k).pages]
            /\ Len(After(k).pages) = Len(before.pages)
            /\ \A i \in DOMAIN before.pages :
                 IF before.pages[i].id = calls[k].id
                 THEN /\ After(k).pages[i].rotation = (before.pages[i].rotation + 90) % 360
                      /\ After(k).pages[i].id = before.pages[i].id
                      /\ After(k).pages[i].fileId = before.pages[i].fileId
                      /\ After(k).pages[i].pageIndex = before.pages[i].pageIndex
                 ELSE After(k).pages[i] = before.pages[i]

\* C16 witness: a page at 270 has been turned to 0 beside pages at 0 and 90 that kept
\* their rotation, rotatePage has been called with an id no page has, and an
\* upload has added a page.
C16_Witness ==
  /\ \E k \in DOMAIN calls :
       /\ calls[k].op = "rotatePage"
       /\ \E i \in DOMAIN calls[k].before.pages :
            /\ calls[k].before.pages[i].id = calls[k].id
            /\ calls[k].before.pages[i].rotation = 270
            /\ After(k).pages[i].rotation = 0
       /\ \E i \in DOMAIN After(k).pages : After(k).pages[i].rotation = 90
  /\ \E k \in DOMAIN calls : calls[k].op = "rotatePage" /\ calls[k].id = AbsentId
  /\ \E k \in DOMAIN calls : calls[k].op = "upload"

\* ------------------------------------------------------------ C17
\* C17: rotatePage called four times in a row with the id of the same page
\* brings that page to the rotation it had, and the workspace to the state it
\* was in before the four calls.
C17_FourQuarterTurns ==
  \A k \in 1..(Len(calls) - 3) :
    (/\ \A n \in k..(k + 3) : calls[n].op = "rotatePage" /\ calls[n].id = calls[k].id
     /\ \E i \in DOMAIN calls[k].before.pages : calls[k].before.pages[i].id = calls[k].id)
    => After(k + 3) = calls[k].before

\* C17 witness: the four calls have been made on a page that started at 180 and has
\* been through 270, 0 and 90.
C17_Witness ==
  /\ Len(calls) = 4
  /\ \A n \in 1..4 : calls[n].op = "rotatePage" /\ calls[n].id = calls[1].id
  /\ \E i \in DOMAIN state.pages :
       /\ state.pages[i].id = calls[1].id
       /\ calls[1].before.pages[i].rotation = 180
       /\ calls[2].before.pages[i].rotation = 270
       /\ calls[3].before.pages[i].rotation = 0
       /\ calls[4].before.pages[i].rotation = 90
       /\ state.pages[i].rotation = 180

\* ------------------------------------------------------------ C18
\* C18: analyzePdfContent never throws, whatever fails in the service or in
\* the construction of its client, and handleAiAnalyze ends with aiInsights a
\* string and with the page sequence and the registry as they were.  Stated of
\* every end of handleAiAnalyze in which extractText resolved, so that
\* analyzePdfContent was called.
C18_AnalysisNeverThrows ==
  [][\A j \in DOMAIN jobs, outcome \in AnalyzeOutcomes :
       AnalyzeSettles(j, TRUE, outcome)
         => /\ ~analyzePdfContent(outcome).threw
            /\ state'.aiInsights # "null"
            /\ state'.pages = state.pages
            /\ state'.files = state.files]_vars

\* ------------------------------------------------------------ C19
\* C19: a reorder with valid indices changes positions only: the sequence after
\* it holds the references of the sequence before it, each with its id,
\* fileId, pageIndex and rotation; the reference that was at the source index
\* is at the target index and the others are in the order they were in; the
\* registry is as it was.
C19_ReorderMovesOnly ==
  [][\A idx \in 0..Len(view.state.pages) :
       (handleDragOver(idx) /\ view.draggedIdx < Len(view.state.pages))
         => /\ state'.files = state.files
            /\ SameElements(state'.pages, state.pages)
            /\ state'.pages[idx + 1] = state.pages[view.draggedIdx + 1]
            /\ Without(state'.pages, idx + 1) = Without(state.pages, view.draggedIdx + 1)]_vars

\* ------------------------------------------------------------ C20
\* C20: an upload started before clearWorkspace and ending after it adds none
\* of its pages or files to the cleared workspace.  While an upload is running
\* and no export or analysis was ever started, the workspace is the initial one
\* with isProcessing false only if it has been cleared since that upload set
\* the flag; the step is the end of that upload.
C20_ClearedStaysEmpty ==
  [][\A u \in DOMAIN uploads :
       (/\ state = InitialState
        /\ jobs = <<>>
        /\ uploads[u].phase = "running"
        /\ uploads'[u].phase # "running")
         => (state'.pages = <<>> /\ state'.files = <<>>)]_vars

\* ------------------------------------------------------------ C21
\* The files and the pages of the workspace s that upload u created.
FilesOfUpload(s, u) == SelectSeq(s.files, LAMBDA f : f.id[1] = u)
PagesOfUpload(s, u) == SelectSeq(s.pages, LAMBDA p : p # Undefined /\ p.fileId[1] = u)

\* C21: a batch is added all or nothing: while an upload has not loaded every
\* file of its batch, and after it has failed on one, the workspace holds no
\* document and no page of that batch, those of the files loaded before the
\* failing one included; the step that ends the upload adds the documents and
\* the pages of the whole batch at once, after what was there.
C21_BatchAllOrNothing ==
  [][\A u \in DOMAIN uploads' :
       /\ uploads'[u].phase # "done"
            => (FilesOfUpload(state', u) = <<>> /\ PagesOfUpload(state', u) = <<>>)
       /\ (/\ u \in DOMAIN uploads
           /\ mounted
           /\ uploads[u].phase = "running"
           /\ uploads'[u].phase = "done")
            => /\ Len(uploads'[u].newFiles) = Len(uploads'[u].batch)
               /\ state'.files = state.files \o uploads'[u].newFiles
               /\ state'.pages = state.pages \o uploads'[u].newPages
               /\ FilesOfUpload(state, u) = <<>>
               /\ PagesOfUpload(state, u) = <<>>]_vars

\* C21 witness: the upload of [B, X] has failed on X after B had loaded, and the
\* upload of [A, B] has ended: the workspace holds the two documents and the
\* three pages of the second and nothing of the first.
C21_Witness ==
  /\ Len(uploads) = 2
  /\ uploads[1].batch = <<"B", "X">>
  /\ uploads[1].phase = "failed"
  /\ Len(uploads[1].newFiles) = 1
  /\ uploads[2].batch = <<"A", "B">>
  /\ uploads[2].phase = "done"
  /\ state.files = uploads[2].newFiles
  /\ state.pages = uploads[2].newPages
  /\ Len(state.pages) = 3

\* ------------------------------------------------------------ specification
Init ==
  /\ state = InitialState
  /\ draggedIdx = Null
  /\ view = [state |-> InitialState, draggedIdx |-> Null]
  /\ mounted = TRUE
  /\ uploads = <<>>
  /\ jobs = <<>>
  /\ downloads = <<>>
  /\ events = 0
  /\ calls = <<>>

Next ==
  \/ \E batch \in Batches : handleFileUpload(batch)
  \/ \E u \in DOMAIN uploads, thumbsOk \in BOOLEAN : UploadFileStep(u, thumbsOk)
  \/ \E i \in 1..Len(view.state.pages) : removePage(i)
  \/ \E i \in 1..Len(view.state.pages) : rotatePage(i)
  \/ \E idx \in 0..Len(view.state.pages) : handleDragStart(idx)
  \/ \E idx \in 0..Len(view.state.pages) : handleDragOver(idx)
  \/ clearWorkspace
  \/ handleMerge
  \/ handleSplit
  \/ handleAiAnalyze
  \/ \E j \in DOMAIN jobs, codecOk \in BOOLEAN : MergeSettles(j, codecOk)
  \/ \E j \in DOMAIN jobs : \E failAt \in 0..Len(jobs[j].pages) : SplitSettles(j, failAt)
  \/ \E j \in DOMAIN jobs, extractOk \in BOOLEAN, outcome \in AnalyzeOutcomes :
       AnalyzeSettles(j, extractOk, outcome)
  \/ Render

Spec == Init /\ [][Next]_vars

\* ------------------------------------------------------------ the export functions on any arguments
\* mergeAndDownload and splitAllToIndividual are exported and take the registry
\* and the sequence as arguments.  Here an export is started from a workspace
\* drawn from those below, whose sequences also hold references that no handler
\* of App produces: to a document that is not in the registry, and to a page
\* index past the end of its document.
FileA == NewFile(1, 1, "A")
FileB == NewFile(1, 2, "B")

\* A reference to page pageIndex of file, rotated by rotation.
RefTo(file, pageIndex, rotation) ==
  [id |-> FreshPageId(file.id, pageIndex), fileId |-> file.id,
   pageIndex |-> pageIndex, rotation |-> rotation]

AssemblyRegistries == {<<FileA, FileB>>, <<FileA>>}

\* The pages of A and B, a rotated page, and page index 2 of the two-page A.
AssemblyRefs ==
  {RefTo(FileA, 0, 0), RefTo(FileA, 0, 90), RefTo(FileA, 1, 0),
   RefTo(FileB, 0, 0), RefTo(FileA, 2, 0)}

AssemblySequences ==
  {<<a>> : a \in AssemblyRefs}
  \cup {<<a, b>> : a, b \in AssemblyRefs}
  \cup {<<a, b, c>> : a, b, c \in AssemblyRefs}

InitAssembly ==
  /\ \E files \in AssemblyRegistries, pages \in AssemblySequences :
       /\ \A i, k \in DOMAIN pages : i # k => pages[i].id # pages[k].id
       /\ state = [InitialState EXCEPT !.files = files, !.pages = pages]
  /\ draggedIdx = Null
  /\ view = [state |-> state, draggedIdx |-> Null]
  /\ mounted = TRUE
  /\ uploads = <<>>
  /\ jobs = <<>>
  /\ downloads = <<>>
  /\ events = 0
  /\ calls = <<>>

NextAssembly ==
  \/ \E i \in 1..Len(view.state.pages) : removePage(i)
  \/ handleMerge
  \/ handleSplit
  \/ \E j \in DOMAIN jobs, codecOk \in BOOLEAN : MergeSettles(j, codecOk)
  \/ \E j \in DOMAIN jobs : \E failAt \in 0..Len(jobs[j].pages) : SplitSettles(j, failAt)
  \/ Render

SpecAssembly == InitAssembly /\ [][NextAssembly]_vars

\* ------------------------------------------------------------ the operations on any workspace
\* The workspaces the calls start from: the initial one, and the three pages of
\* A and B with the first page at any rotation and the others a quarter and a
\* half turn further.
InitOps ==
  /\ \/ state = InitialState
     \/ \E r \in Rotations :
          state = [InitialState EXCEPT
                     !.files = <<FileA, FileB>>,
                     !.pages = <<RefTo(FileA, 0, r), RefTo(FileA, 1, (r + 90) % 360),
                                 RefTo(FileB, 0, (r + 180) % 360)>>]
  /\ draggedIdx = Null
  /\ view = [state |-> state, draggedIdx |-> Null]
  /\ mounted = TRUE
  /\ uploads = <<>>
  /\ jobs = <<>>
  /\ downloads = <<>>
  /\ events = 0
  /\ calls = <<>>

NextOps ==
  \/ \E name \in DOMAIN PageCountOf : uploadCall(name)
  \/ \E id \in KnownIds : removePageCall(id)
  \/ \E id \in KnownIds : rotatePageCall(id)
  \/ \E from, to \in 0..(Len(state.pages) - 1) : reorderCall(from, to)

SpecOps == InitOps /\ [][NextOps]_vars
====
